---------------------------- MODULE Spec2Model ----------------------------
(***************************************************************************)
(* Model of the balance-sheet transformer of automate_balance_seat         *)
(* (src/bs_transformer.py, class BalanceSheetTransformer).                 *)
(*                                                                         *)
(* Text that the code inspects character by character (raw labels, raw     *)
(* amounts, patterns, cleaned and formatted amounts) is a sequence of      *)
(* one-character strings.  Account names, which the code only compares and *)
(* copies, are atomic strings, and so are the cells of the output table:   *)
(* a cell that carries an amount is the concatenation of its characters.   *)
(* TLA+ strings are ASCII, so the Japanese names of the source are         *)
(* romanised and two glyphs are written with a stand-in:                   *)
(*     Sankaku "^" stands for the alternate negative glyph  △  (U+25B3)    *)
(*     Kome    "*" stands for the annotation marker         ※  (U+203B)    *)
(***************************************************************************)
EXTENDS Integers, Sequences, FiniteSets, TLC

\* ------------------------------------------------------------ bounds
\* longest raw amount string handed to clean_amount_value directly
MaxLen == 3
\* longest raw label handed to map_item_to_bs_account directly
MaxLabelLen == 2
\* largest multiple of the unit scale among the amounts fed to format_amount
MaxMillions == 3
\* most rows of an input data frame
MaxRows == 2
\* longest row handed to _convert_to_csv_format directly is NumColumns + MaxExtra
MaxExtra == 2

\* ------------------------------------------------------------ program constants
\* the unit-rescale threshold of format_amount
UnitScale == 1000000
\* the width of every output row
NumColumns == 25
\* the 0-based index of the amount cell
AmountCell == 9
\* the number of cells _detect_value_column samples
HeadSample == 10

\* ------------------------------------------------------------ characters
Sankaku == "^"
Kome == "*"
Minus == "-"
Comma == ","
Space == " "
Quote == "\""
DigitChars == <<"0", "1", "2", "3", "4", "5", "6", "7", "8", "9">>
Digit == {DigitChars[i] : i \in 1..10}

\* what the regex class \d matches
IsDigit(c) == c \in Digit
\* what the regex class [\d,] matches
IsNumChar(c) == IsDigit(c) \/ c = Comma
\* what the regex class [△-] matches
IsSign(c) == c = Sankaku \/ c = Minus
\* what the regex class [0-9,\s] matches
IsNoteChar(c) == IsDigit(c) \/ c = Comma \/ c = Space

DigitValue(c) == CHOOSE d \in 0..9 : DigitChars[d + 1] = c

\* ------------------------------------------------------------ Python string helpers
\* the concatenation of the characters of s, as a cell holds it
RECURSIVE Join(_)
Join(s) == IF s = <<>> THEN "" ELSE Head(s) \o Join(Tail(s))

\* s.replace(c, '')
RECURSIVE Remove(_, _)
Remove(s, c) ==
    IF s = <<>> THEN <<>>
    ELSE IF Head(s) = c THEN Remove(Tail(s), c)
    ELSE <<Head(s)>> \o Remove(Tail(s), c)

\* s.startswith(c) for a one-character c
StartsWith(s, c) == Len(s) >= 1 /\ s[1] = c

\* s.strip(): leading and trailing whitespace removed
RECURSIVE LStrip(_)
LStrip(s) == IF s # <<>> /\ Head(s) = Space THEN LStrip(Tail(s)) ELSE s

RECURSIVE RStrip(_)
RStrip(s) ==
    IF s # <<>> /\ s[Len(s)] = Space THEN RStrip(SubSeq(s, 1, Len(s) - 1)) ELSE s

Strip(s) == RStrip(LStrip(s))

\* pattern in s: pattern occurs as a contiguous, case-sensitive substring
Contains(s, pattern) ==
    \E i \in 1..(Len(s) - Len(pattern) + 1) :
        SubSeq(s, i, i + Len(pattern) - 1) = pattern

\* the end of the longest run of [\d,] characters from i on (i - 1 when there is none)
RECURSIVE NumRunEnd(_, _)
NumRunEnd(s, i) ==
    IF i <= Len(s) /\ IsNumChar(s[i]) THEN NumRunEnd(s, i + 1) ELSE i - 1

\* the end of the longest run of [0-9,\s] characters from i on (i - 1 when there is none)
RECURSIVE NoteRunEnd(_, _)
NoteRunEnd(s, i) ==
    IF i <= Len(s) /\ IsNoteChar(s[i]) THEN NoteRunEnd(s, i + 1) ELSE i - 1

\* float(s): the text parses when it is an optional sign followed by digits
\* (the alphabet of the model has no '.', exponent or whitespace)
FloatBody(s) == IF s # <<>> /\ s[1] = Minus THEN Tail(s) ELSE s
FloatParses(s) ==
    /\ FloatBody(s) # <<>>
    /\ \A i \in 1..Len(FloatBody(s)) : IsDigit(FloatBody(s)[i])

RECURSIVE DigitsValue(_)
DigitsValue(s) ==
    IF s = <<>> THEN 0
    ELSE DigitsValue(SubSeq(s, 1, Len(s) - 1)) * 10 + DigitValue(s[Len(s)])

FloatValue(s) ==
    IF s[1] = Minus THEN 0 - DigitsValue(FloatBody(s)) ELSE DigitsValue(s)

\* the decimal digits of n >= 0
RECURSIVE Decimal(_)
Decimal(n) ==
    IF n < 10 THEN <<DigitChars[n + 1]>>
    ELSE Decimal(n \div 10) \o <<DigitChars[(n % 10) + 1]>>

\* the digits of n < 1000 without the padding
Pad3Unpadded(n) == Decimal(n)

\* the three digits of n < 1000, zero padded
Pad3(n) ==
    <<DigitChars[(n \div 100) + 1], DigitChars[((n \div 10) % 10) + 1],
      DigitChars[(n % 10) + 1]>>

\* f"{n:,}" for n >= 0
RECURSIVE Grouped(_)
Grouped(n) ==
    IF n < 1000 THEN Decimal(n)
    ELSE Grouped(n \div 1000) \o <<Comma>> \o Pad3(n % 1000)

\* f"{n:,}" for an int n
FormatComma(n) == IF n < 0 THEN <<Minus>> \o Grouped(0 - n) ELSE Grouped(n)

\* the least element of a non-empty set of integers
Least(S) == CHOOSE x \in S : \A y \in S : x <= y

\* a missing cell of the data frame (NaN): pd.isna is true of it alone
NaN == <<"NaN">>
IsNa(v) == v = NaN

\* ------------------------------------------------------------ the amount functions
\* the positions where the regex [△-]?[\d,]+ can start a match
MatchStarts(value) ==
    {i \in 1..Len(value) :
        \/ IsNumChar(value[i])
        \/ IsSign(value[i]) /\ i < Len(value) /\ IsNumChar(value[i + 1])}

\* number_patterns[0]: the leftmost, longest match of [△-]?[\d,]+
FirstNumberPattern(value) ==
    LET i == Least(MatchStarts(value))
        body == IF IsSign(value[i]) THEN i + 1 ELSE i
    IN  SubSeq(value, i, NumRunEnd(value, body))

clean_amount_value(value) ==
    IF IsNa(value) \/ value = <<>> THEN <<>>
    ELSE IF MatchStarts(value) = {} THEN <<>>
    ELSE LET cleaned == FirstNumberPattern(value)
         IN  IF StartsWith(cleaned, Sankaku) THEN <<Minus>> \o Tail(cleaned)
             ELSE cleaned

\* line 174: the unit rescale applies
ShouldRescaleAnyAmount(num_value) == num_value >= UnitScale
ShouldRescale(num_value) == num_value >= UnitScale /\ num_value % UnitScale = 0

format_amount(amount) ==
    IF amount = <<>> THEN <<>>
    ELSE LET stripped == Remove(amount, Comma)
             is_negative == StartsWith(stripped, Minus)
             clean_amount == IF is_negative THEN Tail(stripped) ELSE stripped
         IN  IF ~FloatParses(clean_amount) THEN amount
             ELSE LET num_value == FloatValue(clean_amount)
                  IN  IF ShouldRescale(num_value)
                      THEN IF is_negative
                           THEN FormatComma((num_value \div UnitScale) * (0 - 1))
                           ELSE FormatComma(num_value \div UnitScale)
                      ELSE IF is_negative
                           THEN <<Minus>> \o FormatComma(num_value)
                           ELSE FormatComma(num_value)

\* the matches of ※[0-9,\s]* from position i on, joined
RECURSIVE NotesFrom(_, _)
NotesFrom(value, i) ==
    IF i > Len(value) THEN <<>>
    ELSE IF value[i] = Kome
         THEN SubSeq(value, i, NoteRunEnd(value, i + 1))
                  \o NotesFrom(value, NoteRunEnd(value, i + 1) + 1)
         ELSE NotesFrom(value, i + 1)

extract_note_numbers(value) ==
    IF IsNa(value) \/ value = <<>> THEN <<>> ELSE Strip(NotesFrom(value, 1))

\* ------------------------------------------------------------ configuration
(***************************************************************************)
(* Romanised names.  Sections: ShisanNoBu 資産の部, FusaiNoBu 負債の部.    *)
(* A name that ends in Gokei holds 合計 (a total) in the source.           *)
(***************************************************************************)
ListNode(name, items) == [name |-> name, kind |-> "list", children |-> items]
DictNode(name, subs) == [name |-> name, kind |-> "dict", children |-> subs]
NoneNode(name) == [name |-> name, kind |-> "none", children |-> <<>>]

\* the structure _load_bs_structure falls back to
DefaultStructure ==
    [ShisanNoBu |-> <<
        ListNode("RyudoShisan",
            <<"GenkinOyobiYokin", "CallLoan", "UketoriTegataOyobiUrikakekin",
              "YukaShoken", "TanaoroshiShisan", "EigyoKashitsukekin",
              "GinkogyoKashidashikin", "Sonota", "KashidaoreHikiatekin",
              "RyudoShisanGokei">>),
        DictNode("KoteiShisan", <<
            ListNode("YukeiKoteiShisan",
                <<"TatemonoOyobiKochikubutsuJungaku", "KoguKiguOyobiBihinJungaku",
                  "Tochi", "LeaseShisanJungaku", "KensetsuKarikanjo",
                  "SonotaJungaku", "YukeiKoteiShisanGokei">>),
            ListNode("MukeiKoteiShisan",
                <<"Noren", "Software", "LeaseShisan", "Sonota",
                  "MukeiKoteiShisanGokei">>),
            ListNode("ToshiSonotaNoShisan",
                <<"ToshiYukaShoken", "TaishokuKyufuShisan", "KurinobeZeikinShisan",
                  "SashiireHoshokin", "TenpoChinshakuKarikanjo", "Sonota",
                  "KashidaoreHikiatekin", "ToshiSonotaNoShisanGokei">>)>>),
        NoneNode("KoteiShisanGokei"),
        NoneNode("ShisanGokei")>>,
     FusaiNoBu |-> <<
        ListNode("RyudoFusai",
            <<"ShiharaiTegataOyobiKaikakekin", "GinkogyoYokin", "TankiKariirekin",
              "IchinenNaiHensaiChokiKariirekin", "IchinenNaiShokanShasai",
              "CommercialPaper", "LeaseSaimu", "MibaraiHojinzeiTo", "KeiyakuFusai",
              "ShoyoHikiatekin", "TenpoHeisaSonshitsuHikiatekin", "PointHikiatekin",
              "SetsubiKankeiShiharaiTegata", "Sonota", "RyudoFusaiGokei">>),
        ListNode("KoteiFusai",
            <<"Shasai", "ChokiKariirekin", "LeaseSaimu", "KurinobeZeikinFusai",
              "YakuinTaishokuIroHikiatekin", "TenpoHeisaSonshitsuHikiatekin",
              "GuhatsuSonshitsuHikiatekin", "RisokuHenkanSonshitsuHikiatekin",
              "TaishokuKyufuFusai", "ShisanJokyoSaimu", "ChokiAzukariHoshokin",
              "HokenKeiyakuJunbikin", "Sonota", "KoteiFusaiGokei">>),
        NoneNode("FusaiGokei")>>]

\* a structure supplied by the configuration: a nested category with a child
\* that is not a list, a bare total first, and no second section
ConfiguredStructure ==
    [ShisanNoBu |-> <<
        NoneNode("ShisanGokei"),
        DictNode("KoteiShisan", <<
            ListNode("YukeiKoteiShisan", <<"Tochi", "Sonota">>),
            NoneNode("KoteiShisanGokei")>>),
        ListNode("RyudoShisan", <<"Sonota", "GenkinOyobiYokin">>)>>]

\* a list element of the pattern table that is not a string
NotAString == <<"<not-a-str>">>

\* balance_sheet.account_mapping of the configuration, in insertion order:
\* kind "list" is a list of patterns, "str" a single pattern, "other" neither
MappingA ==
    <<[account |-> "GenkinOyobiYokin", kind |-> "list",
       patterns |-> <<NotAString, <<"g">>>>],
      [account |-> "Tochi", kind |-> "other", patterns |-> <<>>],
      [account |-> "TatemonoOyobiKochikubutsuJungaku", kind |-> "str",
       patterns |-> <<<<"t">>>>],
      [account |-> "Sonota", kind |-> "list",
       patterns |-> <<<<"g", "t">>, <<"G">>>>]>>

MappingB ==
    <<[account |-> "Tochi", kind |-> "str", patterns |-> <<<<Space, "t">>>>],
      [account |-> "Sonota", kind |-> "str", patterns |-> <<<<"G">>>>],
      [account |-> "GenkinOyobiYokin", kind |-> "list",
       patterns |-> <<<<"g", "t">>, <<"g">>>>],
      [account |-> "Mibunrui", kind |-> "list", patterns |-> <<<<"t">>>>]>>

Configs ==
    {[structure |-> DefaultStructure, account_mapping |-> MappingA],
     [structure |-> ConfiguredStructure, account_mapping |-> MappingB]}

\* ------------------------------------------------------------ state
VARIABLES
    bs_structure,     \* self.bs_structure
    account_mapping,  \* self.bs_config['account_mapping']
    pc,               \* where the running call stands
    call,             \* a direct call of one method: its name, arguments, result
    df,               \* the data frame handed to transform_to_balance_sheet
    current_year_df,  \* the rows that passed the period filter
    item_name_col,    \* the detected label column (<<>> when none)
    value_col,        \* the detected value column (<<>> when none)
    row_idx,          \* rows of current_year_df already classified
    bs_items_dict,    \* account name -> the BSItems classified to it, in order
    mapped_count,     \* rows classified so far
    result,           \* the rows of the returned data frame
    main_pc,          \* where a run of main stands
    args,             \* the parsed command line of the run: dry_run, format
    files,            \* the files at the input, config and output paths
    handler,          \* the except clause of main that ended the run ("" for none)
    exit_code         \* the exit code of the run (<<>> while it runs)

vars ==
    <<bs_structure, account_mapping, pc, call, df, current_year_df, item_name_col,
      value_col, row_idx, bs_items_dict, mapped_count, result, main_pc, args, files,
      handler, exit_code>>

\* ------------------------------------------------------------ the classifier
\* 合計 occurs in the account name
HasGokei(account_name) ==
    account_name \in
        {"RyudoShisanGokei", "YukeiKoteiShisanGokei", "MukeiKoteiShisanGokei",
         "ToshiSonotaNoShisanGokei", "KoteiShisanGokei", "ShisanGokei",
         "RyudoFusaiGokei", "KoteiFusaiGokei", "FusaiGokei"}

major_categories ==
    {"ShisanNoBu", "FusaiNoBu", "JunshisanNoBu", "RyudoShisan", "KoteiShisan",
     "RyudoFusai", "KoteiFusai"}

_get_account_level(account_name) ==
    IF HasGokei(account_name) THEN 1
    ELSE IF account_name \in major_categories THEN 0
    ELSE 2

\* whether the loop body of map_item_to_bs_account returns for this table entry
EntryMatches(entry, item_name_str) ==
    IF entry.kind = "list"
    THEN \E k \in 1..Len(entry.patterns) :
            /\ entry.patterns[k] # NotAString
            /\ Contains(item_name_str, entry.patterns[k])
    ELSE IF entry.kind = "str"
    THEN Contains(item_name_str, entry.patterns[1])
    ELSE FALSE

\* lines 240-257: the table entry the loop returns for, among those that match
LastMatch(hits) == CHOOSE x \in hits : \A y \in hits : y <= x
FirstMatch(hits) == Least(hits)

\* the classifier, but a label that matches nothing falls to the first account
MapItemUnmatchedToFirst(item_name, amount) ==
    IF IsNa(item_name) \/ item_name = <<>> THEN <<>>
    ELSE IF Strip(item_name) = <<>> THEN <<>>
    ELSE LET item_name_str == Strip(item_name)
             hits == {i \in 1..Len(account_mapping) :
                         EntryMatches(account_mapping[i], item_name_str)}
             bs_account == IF hits = {} THEN account_mapping[1].account
                           ELSE account_mapping[FirstMatch(hits)].account
         IN  <<[level |-> _get_account_level(bs_account),
                name |-> bs_account,
                value |-> format_amount(clean_amount_value(amount)),
                note |-> extract_note_numbers(amount)]>>

\* Optional[BSItem]: <<>> is None, <<item>> an item
map_item_to_bs_account(item_name, amount) ==
    IF IsNa(item_name) \/ item_name = <<>> THEN <<>>
    ELSE IF Strip(item_name) = <<>> THEN <<>>
    ELSE LET item_name_str == Strip(item_name)
             hits == {i \in 1..Len(account_mapping) :
                         EntryMatches(account_mapping[i], item_name_str)}
         IN  IF hits = {} THEN <<>>
             ELSE LET bs_account == account_mapping[FirstMatch(hits)].account
                  IN  <<[level |-> _get_account_level(bs_account),
                         name |-> bs_account,
                         value |-> format_amount(clean_amount_value(amount)),
                         note |-> extract_note_numbers(amount)]>>

\* ------------------------------------------------------------ the data frame
(***************************************************************************)
(* A data frame is its column names in order, the dtype of each column and *)
(* its rows; a row maps each column name to a cell, a text or NaN.         *)
(* Column names: KomokuMei 項目名, KamokuMei 科目名, KanjoKamoku 勘定科目, *)
(* Atai 値, Kingaku 金額, Zandaka 残高, ContextID コンテキストID,          *)
(* SoutaiNendo 相対年度.                                                   *)
(***************************************************************************)
UpperCase ==
    <<"A", "B", "C", "D", "E", "F", "G", "H", "I", "J", "K", "L", "M",
      "N", "O", "P", "Q", "R", "S", "T", "U", "V", "W", "X", "Y", "Z">>
LowerCase ==
    <<"a", "b", "c", "d", "e", "f", "g", "h", "i", "j", "k", "l", "m",
      "n", "o", "p", "q", "r", "s", "t", "u", "v", "w", "x", "y", "z">>

ToLower(c) ==
    IF \E i \in 1..26 : UpperCase[i] = c
    THEN LowerCase[CHOOSE i \in 1..26 : UpperCase[i] = c]
    ELSE c

Lower(s) == [i \in 1..Len(s) |-> ToLower(s[i])]

CurrentWord == <<"C", "u", "r", "r", "e", "n", "t">>
\* the two values of 相対年度 the filter keeps: 当期 and 当期末
Touki == <<"tou", "ki">>
ToukiMatsu == <<"tou", "ki", "matsu">>

\* the same test with case=True
ContainsCurrentCase(cell) ==
    ~IsNa(cell) /\ Contains(cell, CurrentWord)

\* Series.str.contains('CurrentYear|Current', na=False, case=False) of one cell
ContainsCurrentNoCase(cell) ==
    ~IsNa(cell) /\ Contains(Lower(cell), Lower(CurrentWord))

\* str(cell): a missing cell prints as nan
StrOf(cell) == IF IsNa(cell) THEN <<"n", "a", "n">> ELSE cell

ColumnSet(frame) == {frame.columns[i] : i \in 1..Len(frame.columns)}

\* 'Instant' in col or 'Quarter' in col
HasInstantOrQuarter(col) == col \in {"PeriodInstant", "QuarterEnd"}

\* lines 299-330: the period filter of transform_to_balance_sheet
InstantCols(frame) ==
    SelectSeq(frame.columns, LAMBDA col : HasInstantOrQuarter(col))

\* the columns whose first cell holds 'Current' (case-sensitive) widen the mask
InstantMask(frame, row) ==
    \E k \in 1..Len(InstantCols(frame)) :
        LET col == InstantCols(frame)[k]
        IN  /\ Len(frame.rows) > 0
            /\ Contains(StrOf(frame.rows[1][col]), CurrentWord)
            /\ ContainsCurrentNoCase(row[col])

FilterCurrentYear(frame) ==
    IF "ContextID" \in ColumnSet(frame)
    THEN SelectSeq(frame.rows, LAMBDA row : ContainsCurrentNoCase(row["ContextID"]))
    ELSE IF "SoutaiNendo" \in ColumnSet(frame)
    THEN SelectSeq(frame.rows,
                   LAMBDA row : row["SoutaiNendo"] = Touki
                                    \/ row["SoutaiNendo"] = ToukiMatsu)
    ELSE IF InstantCols(frame) # <<>>
              /\ \E i \in 1..Len(frame.rows) : InstantMask(frame, frame.rows[i])
    THEN SelectSeq(frame.rows, LAMBDA row : InstantMask(frame, row))
    ELSE frame.rows

\* ------------------------------------------------------------ column detection
\* the first element of a sequence of column names that satisfies a test,
\* as <<name>>, or <<>> when there is none
FirstOf(cols) == IF cols = <<>> THEN <<>> ELSE <<Head(cols)>>

ItemCandidates == <<"KomokuMei", "KamokuMei", "KanjoKamoku", "Element", "ElementName">>
\* any of 項目, 科目, 勘定, Element occurs in the column name
HasItemPattern(col) ==
    col \in {"KomokuMei", "KamokuMei", "KanjoKamoku", "Element", "ElementName",
             "KamokuCode"}

ValueCandidates == <<"Atai", "Kingaku", "Value", "Amount", "Zandaka">>
\* any of 値, 金額, Value, Amount occurs in the column name
HasValuePattern(col) ==
    col \in {"Atai", "Kingaku", "Value", "Amount", "KingakuSenEn"}

\* Optional[str]: <<>> is None, <<name>> a column name
_detect_item_name_column(frame) ==
    LET byName == SelectSeq(ItemCandidates, LAMBDA c : c \in ColumnSet(frame))
        byPattern == SelectSeq(frame.columns, LAMBDA col : HasItemPattern(col))
        byType == SelectSeq(frame.columns, LAMBDA col : frame.dtype[col] = "object")
    IN  IF byName # <<>> THEN FirstOf(byName)
        ELSE IF byPattern # <<>> THEN FirstOf(byPattern)
        ELSE FirstOf(byType)

\* float(str(val).replace(',', '').replace('△', '-').strip()) does not raise
LooksNumeric(val) ==
    LET noComma == Remove(val, Comma)
        val_str == Strip([i \in 1..Len(noComma) |->
                            IF noComma[i] = Sankaku THEN Minus ELSE noComma[i]])
    IN  FloatParses(val_str)

\* df[col].dropna().head(10)
SampleValues(frame, col) ==
    LET present == SelectSeq(frame.rows, LAMBDA row : ~IsNa(row[col]))
    IN  [i \in 1..(IF Len(present) < HeadSample THEN Len(present) ELSE HeadSample)
            |-> present[i][col]]

\* the third rule of _detect_value_column accepts this column
ValueByContent(frame, col) ==
    \/ frame.dtype[col] \in {"int64", "float64"}
    \/ /\ frame.dtype[col] = "object"
       /\ LET sample_values == SampleValues(frame, col)
              numeric_count == Cardinality({i \in 1..Len(sample_values) :
                                               LooksNumeric(sample_values[i])})
          IN  2 * numeric_count > Len(sample_values)

_detect_value_column(frame) ==
    LET byName == SelectSeq(ValueCandidates, LAMBDA c : c \in ColumnSet(frame))
        byPattern == SelectSeq(frame.columns, LAMBDA col : HasValuePattern(col))
        byContent == SelectSeq(frame.columns, LAMBDA col : ValueByContent(frame, col))
    IN  IF byName # <<>> THEN FirstOf(byName)
        ELSE IF byPattern # <<>> THEN FirstOf(byPattern)
        ELSE FirstOf(byContent)

\* ------------------------------------------------------------ the aggregator
EmptyDict == [k \in {} |-> <<>>]

\* bs_items_dict after the loop body of lines 353-359 stored bs_item
DictAppend(dict, bs_item) ==
    IF bs_item.name \in DOMAIN dict
    THEN [dict EXCEPT ![bs_item.name] = Append(@, bs_item)]
    ELSE [k \in DOMAIN dict \cup {bs_item.name} |->
            IF k = bs_item.name THEN <<bs_item>> ELSE dict[k]]

\* lines 390-400: whether an item's value adds to the total (no ValueError)
ItemParses(item) ==
    /\ item.value # <<>>
    /\ Strip(item.value) # <<>>
    /\ LET clean_value == Remove(item.value, Comma)
       IN  IF StartsWith(clean_value, Minus) THEN FloatParses(Tail(clean_value))
           ELSE FloatParses(clean_value)

\* lines 392-396: the amount an item that parses adds
ItemAmount(item) ==
    LET clean_value == Remove(item.value, Comma)
    IN  IF StartsWith(clean_value, Minus) THEN 0 - FloatValue(Tail(clean_value))
        ELSE FloatValue(clean_value)

\* total_amount when each amount overwrites it instead of adding to it
RECURSIVE TotalAmountLastWins(_)
TotalAmountLastWins(items_list) ==
    IF items_list = <<>> THEN 0
    ELSE LET rest == TotalAmountLastWins(SubSeq(items_list, 1, Len(items_list) - 1))
             item == items_list[Len(items_list)]
         IN  IF ItemParses(item) THEN ItemAmount(item) ELSE rest

\* lines 386-400: total_amount after the loop over items_list
RECURSIVE TotalAmount(_)
TotalAmount(items_list) ==
    IF items_list = <<>> THEN 0
    ELSE LET rest == TotalAmount(SubSeq(items_list, 1, Len(items_list) - 1))
             item == items_list[Len(items_list)]
         IN  IF ItemParses(item) THEN rest + ItemAmount(item) ELSE rest

\* has_valid_amount when one unparseable member voids the group
HasValidAmountAll(items_list) ==
    \A i \in 1..Len(items_list) : ItemParses(items_list[i])

\* lines 387-400: has_valid_amount after the loop over items_list
HasValidAmount(items_list) ==
    \E i \in 1..Len(items_list) : ItemParses(items_list[i])

\* line 404: every amount is a whole number, so the total is one
FormatTotal(total_amount) == FormatComma(total_amount)

\* lines 381-410: the consolidated BSItem of each account with a valid amount
ConsolidatedItems(dict) ==
    [account_name \in {k \in DOMAIN dict : dict[k] # <<>> /\ HasValidAmount(dict[k])} |->
        [level |-> dict[account_name][1].level,
         name |-> account_name,
         value |-> FormatTotal(TotalAmount(dict[account_name])),
         note |-> <<>>]]

\* ------------------------------------------------------------ the layout builder
\* a row of NumColumns cells, all empty but cell k (0-based), which holds text
RowWith(k, text) == [i \in 1..NumColumns |-> IF i = k + 1 THEN text ELSE ""]
BlankRow == [i \in 1..NumColumns |-> ""]

\* the cell of a row at a 0-based index
Cell(row, k) == row[k + 1]

\* lines 491-496: the 0-based cell the label of a row of this level goes to
LabelCellIsLevel(level) == level
LabelCell(level) == level - 1

\* the item row, but no row at all for an account without an amount
AddItemRowOnlyWithAmount(item_name, item_dict, level) ==
    IF item_name \in DOMAIN item_dict /\ item_dict[item_name].value # <<>>
    THEN <<[RowWith(LabelCell(level), item_name) EXCEPT ![AmountCell + 1] =
                Quote \o Join(item_dict[item_name].value) \o Quote]>>
    ELSE <<>>

_add_item_row_with_grouping(item_name, item_dict, level) ==
    LET row == IF level \in {1, 2, 3} THEN RowWith(LabelCell(level), item_name)
               ELSE BlankRow
    IN  IF item_name \in DOMAIN item_dict /\ item_dict[item_name].value # <<>>
        THEN <<[row EXCEPT ![AmountCell + 1] =
                    Quote \o Join(item_dict[item_name].value) \o Quote]>>
        ELSE <<row>>

\* the rows of the items of a list, each at the given level
RECURSIVE ItemRows(_, _, _)
ItemRows(items, item_dict, level) ==
    IF items = <<>> THEN <<>>
    ELSE _add_item_row_with_grouping(Head(items), item_dict, level)
             \o ItemRows(Tail(items), item_dict, level)

\* the rows of the sub-categories, a header after its leaves
RECURSIVE SubcategoryRowsHeaderLast(_, _)
SubcategoryRowsHeaderLast(subcategories, item_dict) ==
    IF subcategories = <<>> THEN <<>>
    ELSE LET subcat == Head(subcategories)
         IN  (IF subcat.kind = "list"
              THEN ItemRows(subcat.children, item_dict, 3) \o <<RowWith(2, subcat.name)>>
              ELSE _add_item_row_with_grouping(subcat.name, item_dict, 2))
             \o SubcategoryRowsHeaderLast(Tail(subcategories), item_dict)

\* lines 447-457: the rows of the sub-categories of a nested category
RECURSIVE SubcategoryRows(_, _)
SubcategoryRows(subcategories, item_dict) ==
    IF subcategories = <<>> THEN <<>>
    ELSE LET subcat == Head(subcategories)
         IN  (IF subcat.kind = "list"
              THEN <<RowWith(2, subcat.name)>> \o ItemRows(subcat.children, item_dict, 3)
              ELSE _add_item_row_with_grouping(subcat.name, item_dict, 2))
             \o SubcategoryRows(Tail(subcategories), item_dict)

\* the rows of the categories, the leaves of a direct list at level 2 as
\* _build_section places them
RECURSIVE CategoryRowsLeafLevel2(_, _)
CategoryRowsLeafLevel2(structure, item_dict) ==
    IF structure = <<>> THEN <<>>
    ELSE LET category == Head(structure)
         IN  (IF category.kind = "dict"
              THEN <<RowWith(1, category.name)>>
                       \o SubcategoryRows(category.children, item_dict)
              ELSE IF category.kind = "list"
              THEN <<RowWith(1, category.name)>>
                       \o ItemRows(category.children, item_dict, 2)
              ELSE _add_item_row_with_grouping(category.name, item_dict, 1))
             \o CategoryRowsLeafLevel2(Tail(structure), item_dict)

\* lines 442-469: the rows of the categories of a section
RECURSIVE CategoryRows(_, _)
CategoryRows(structure, item_dict) ==
    IF structure = <<>> THEN <<>>
    ELSE LET category == Head(structure)
         IN  (IF category.kind = "dict"
              THEN <<RowWith(1, category.name)>>
                       \o SubcategoryRows(category.children, item_dict)
              ELSE IF category.kind = "list"
              THEN <<RowWith(1, category.name)>>
                       \o ItemRows(category.children, item_dict, 3)
              ELSE _add_item_row_with_grouping(category.name, item_dict, 1))
             \o CategoryRows(Tail(structure), item_dict)

\* self.bs_structure.get(section_name, {})
SectionOf(section_name) ==
    IF section_name \in DOMAIN bs_structure THEN bs_structure[section_name] ELSE <<>>

_build_section_with_grouping(section_name, item_dict) ==
    <<RowWith(0, section_name)>> \o CategoryRows(SectionOf(section_name), item_dict)

\* the two sections, amounts shown in the first one only
BuildStructureAmountsInFirstSection(dict) ==
    LET consolidated_items == ConsolidatedItems(dict)
    IN  _build_section_with_grouping("ShisanNoBu", consolidated_items)
            \o <<BlankRow>>
            \o _build_section_with_grouping("FusaiNoBu", EmptyDict)

_build_balance_sheet_structure_with_grouping(dict) ==
    LET consolidated_items == ConsolidatedItems(dict)
    IN  _build_section_with_grouping("ShisanNoBu", consolidated_items)
            \o <<BlankRow>>
            \o _build_section_with_grouping("FusaiNoBu", consolidated_items)

\* ------------------------------------------------------------ the row standardizer
\* one row padded but never truncated
StandardizeRowPadOnly(row) ==
    IF Len(row) < NumColumns
    THEN row \o [i \in 1..(NumColumns - Len(row)) |-> ""]
    ELSE row

\* lines 719-722: one row padded or truncated to NumColumns cells
StandardizeRow(row) ==
    IF Len(row) < NumColumns
    THEN row \o [i \in 1..(NumColumns - Len(row)) |-> ""]
    ELSE IF Len(row) > NumColumns THEN SubSeq(row, 1, NumColumns)
    ELSE row

\* the rows of the data frame _convert_to_csv_format returns
_convert_to_csv_format(table) == [i \in 1..Len(table) |-> StandardizeRow(table[i])]

\* ------------------------------------------------------------ inputs
\* every sequence over S of length at most n
SeqsUpTo(S, n) == UNION {[1..k -> S] : k \in 0..n}

\* raw amounts and cells that occur by name below
Amount1234567 == <<"1", ",", "2", "3", "4", ",", "5", "6", "7">>
Amount2000000 == <<"2", ",", "0", "0", "0", ",", "0", "0", "0">>
AmountSankaku500000 == <<"^", "5", "0", "0", ",", "0", "0", "0">>
AmountCommaOnly == <<",">>
AmountPlain500 == <<"5", "0", "0">>
AmountNoteThenAmount == <<"*", "1", " ", "5", "0", "0">>
AmountThenNote == <<"5", "0", "0", "*", "1">>
CurrentYearInstant == <<"C", "u", "r", "r", "e", "n", "t", "Y", "e", "a", "r", "I", "n", "s", "t", "a", "n", "t">>
CurrentQuarterLower == <<"c", "u", "r", "r", "e", "n", "t", "q", "u", "a", "r", "t", "e", "r">>
Prior1YearInstant == <<"P", "r", "i", "o", "r", "1", "Y", "e", "a", "r", "I", "n", "s", "t", "a", "n", "t">>
Suji500 == <<"5", "0", "0">>
Suji2000000 == <<"2", "0", "0", "0", "0", "0", "0">>

\* raw amount strings handed to clean_amount_value and extract_note_numbers
AmountChars == {"5", Comma, Minus, Sankaku, Kome, "x", Space}
RawAmounts ==
    SeqsUpTo(AmountChars, MaxLen)
        \cup {Amount1234567, Amount2000000, AmountSankaku500000,
              AmountNoteThenAmount, AmountThenNote}

\* the amounts whose tokens are handed to format_amount
AmountNumbers ==
    {m * UnitScale + r : m \in 0..MaxMillions, r \in {0, 1, 999, 1000, 234567, 999999}}
AmountTokens ==
    UNION {{Grouped(n), Decimal(n), <<Minus>> \o Grouped(n), <<Minus>> \o Decimal(n)} :
              n \in AmountNumbers}
        \cup {<<>>, <<Comma>>, <<Minus>>, <<Minus, Comma>>, <<"x">>,
              <<Minus, Minus, "5">>, <<"0", "0", "7">>, <<"1", Comma, "2", Comma, "3">>}

\* raw labels handed to map_item_to_bs_account
LabelChars == {"g", "t", "G", Space}
RawLabels == SeqsUpTo(LabelChars, MaxLabelLen) \cup {NaN}

\* rows handed to _convert_to_csv_format: cell i of a raw row holds the text of i
IndexText(i) == Join(Decimal(i))
RawRow(n) == [i \in 1..n |-> IndexText(i)]
RawRowLengths == {0} \cup ((NumColumns - MaxExtra)..(NumColumns + MaxExtra))
RawTables == SeqsUpTo({RawRow(n) : n \in RawRowLengths}, MaxRows)

\* the data frames handed to transform_to_balance_sheet, by column layout
Frame(columns, dtype, rows) == [columns |-> columns, dtype |-> dtype, rows |-> rows]

\* rows of two accounts with every kind of amount, a missing amount, a label
\* that matches nothing and a label of a third account
PlainRows ==
    [KomokuMei : {<<"g">>, <<"G">>},
     Atai : {Amount1234567, Amount2000000, AmountSankaku500000, AmountCommaOnly}]
        \cup [KomokuMei : {<<"g">>}, Atai : {NaN}]
        \cup [KomokuMei : {<<"x">>, <<"t">>}, Atai : {AmountSankaku500000}]

PlainFrames ==
    {Frame(<<"KomokuMei", "Atai">>, [KomokuMei |-> "object", Atai |-> "object"], rows) :
        rows \in SeqsUpTo(PlainRows, MaxRows)}

ContextFrames ==
    {Frame(<<"ContextID", "KomokuMei", "Atai">>,
           [ContextID |-> "object", KomokuMei |-> "object", Atai |-> "object"], rows) :
        rows \in SeqsUpTo([ContextID : {CurrentYearInstant, CurrentQuarterLower,
                                        Prior1YearInstant, NaN},
                           KomokuMei : {<<"g">>}, Atai : {AmountPlain500}], MaxRows)}

NendoFrames ==
    {Frame(<<"SoutaiNendo", "KomokuMei", "Atai">>,
           [SoutaiNendo |-> "object", KomokuMei |-> "object", Atai |-> "object"], rows) :
        rows \in SeqsUpTo([SoutaiNendo : {Touki, ToukiMatsu, <<"zen", "ki">>, NaN},
                           KomokuMei : {<<"g">>}, Atai : {AmountPlain500}], MaxRows)}

BothFrames ==
    {Frame(<<"SoutaiNendo", "ContextID", "KomokuMei", "Atai">>,
           [SoutaiNendo |-> "object", ContextID |-> "object", KomokuMei |-> "object",
            Atai |-> "object"], rows) :
        rows \in SeqsUpTo([SoutaiNendo : {Touki, <<"zen", "ki">>},
                           ContextID : {CurrentYearInstant, Prior1YearInstant},
                           KomokuMei : {<<"g">>}, Atai : {AmountPlain500}], MaxRows)}

InstantFrames ==
    {Frame(<<"PeriodInstant", "KomokuMei", "Atai">>,
           [PeriodInstant |-> "object", KomokuMei |-> "object", Atai |-> "object"], rows) :
        rows \in SeqsUpTo([PeriodInstant : {CurrentYearInstant, CurrentQuarterLower,
                                            Prior1YearInstant},
                           KomokuMei : {<<"g">>, <<"x">>}, Atai : {AmountPlain500}],
                          MaxRows)}

\* no column is known by name: Namae 名前 holds text, Suji 数字 integers
UnnamedFrames ==
    {Frame(<<"Namae", "Suji">>, [Namae |-> "object", Suji |-> "int64"], rows) :
        rows \in SeqsUpTo([Namae : {<<"g">>, <<"x">>}, Suji : {Suji500, Suji2000000}],
                          MaxRows)}

\* a single free-text column
MemoFrames ==
    {Frame(<<"Memo">>, [Memo |-> "object"], rows) :
        rows \in SeqsUpTo([Memo : {<<"g">>, Suji500}], MaxRows)}

\* a label column and nothing else, and a frame without columns
LabelOnlyFrames ==
    {Frame(<<"KamokuCode">>, [KamokuCode |-> "object"], rows) :
        rows \in SeqsUpTo([KamokuCode : {<<"g">>}], MaxRows)}
NoColumnFrames == {Frame(<<>>, EmptyDict, <<>>)}

DataFrames ==
    PlainFrames \cup ContextFrames \cup NendoFrames \cup BothFrames \cup InstantFrames
        \cup UnnamedFrames \cup MemoFrames \cup LabelOnlyFrames \cup NoColumnFrames

\* ------------------------------------------------------------ the state machine
NoCall == [fn |-> "", args |-> <<>>, ret |-> <<>>]
NoFrame == Frame(<<>>, EmptyDict, <<>>)

\* main has not been run
NoArgs == [dry_run |-> FALSE, format |-> ""]
NoFiles == [input |-> "", config |-> "", output |-> ""]

\* __init__: the configuration is read, nothing has been called
Init ==
    /\ \E config \in Configs :
        /\ bs_structure = config.structure
        /\ account_mapping = config.account_mapping
    /\ pc = "idle"
    /\ call = NoCall
    /\ df = NoFrame
    /\ current_year_df = <<>>
    /\ item_name_col = <<>>
    /\ value_col = <<>>
    /\ row_idx = 0
    /\ bs_items_dict = EmptyDict
    /\ mapped_count = 0
    /\ result = <<>>
    /\ main_pc = "idle"
    /\ args = NoArgs
    /\ files = NoFiles
    /\ handler = ""
    /\ exit_code = <<>>

TransformVars ==
    <<df, current_year_df, item_name_col, value_col, row_idx, bs_items_dict,
      mapped_count, result>>

MainVars == <<main_pc, args, files, handler, exit_code>>

\* a direct call of one method of the transformer
Called(fn, arguments, ret) ==
    /\ pc = "idle"
    /\ pc' = "returned"
    /\ call' = [fn |-> fn, args |-> arguments, ret |-> ret]
    /\ UNCHANGED <<bs_structure, account_mapping>>
    /\ UNCHANGED TransformVars
    /\ UNCHANGED MainVars

CallCleanAmountValue ==
    \E value \in RawAmounts :
        Called("clean_amount_value", <<value>>, clean_amount_value(value))

CallFormatAmount ==
    \E amount \in AmountTokens :
        Called("format_amount", <<amount>>, format_amount(amount))

CallExtractNoteNumbers ==
    \E value \in RawAmounts :
        Called("extract_note_numbers", <<value>>, extract_note_numbers(value))

CallMapItem ==
    \E item_name \in RawLabels,
       amount \in {Amount1234567, Amount2000000, AmountSankaku500000} :
        Called("map_item_to_bs_account", <<item_name, amount>>,
               map_item_to_bs_account(item_name, amount))

CallConvertToCsv ==
    \E table \in RawTables :
        Called("_convert_to_csv_format", <<table>>, _convert_to_csv_format(table))

\* line 339: not item_name_col or not value_col
MissingColumnAnd(item_col, val_col) == item_col = <<>> /\ val_col = <<>>
MissingColumn(item_col, val_col) == item_col = <<>> \/ val_col = <<>>

\* transform_to_balance_sheet, lines 293-342: the period filter, the column
\* detection and the return of an empty report when a column is missing
TransformBegin ==
    \E frame \in DataFrames :
        LET filtered == FilterCurrentYear(frame)
            current == [frame EXCEPT !.rows = filtered]
            item_col == _detect_item_name_column(current)
            val_col == _detect_value_column(current)
        IN  /\ pc = "idle"
            /\ df' = frame
            /\ current_year_df' = filtered
            /\ item_name_col' = item_col
            /\ value_col' = val_col
            /\ IF MissingColumn(item_col, val_col)
               THEN /\ result' = _convert_to_csv_format(<<>>)
                    /\ pc' = "done"
               ELSE /\ result' = result
                    /\ pc' = "mapping"
            /\ UNCHANGED <<bs_structure, account_mapping, call, row_idx, bs_items_dict,
                           mapped_count>>
            /\ UNCHANGED MainVars

\* lines 348-359: one iteration of the loop over the rows
MapRow ==
    /\ pc = "mapping"
    /\ row_idx < Len(current_year_df)
    /\ LET row == current_year_df[row_idx + 1]
           item_name == IF ~IsNa(row[item_name_col[1]]) THEN row[item_name_col[1]]
                        ELSE <<>>
           value == IF ~IsNa(row[value_col[1]]) THEN row[value_col[1]] ELSE <<>>
           bs_item == map_item_to_bs_account(item_name, value)
       IN  IF bs_item # <<>>
           THEN /\ bs_items_dict' = DictAppend(bs_items_dict, bs_item[1])
                /\ mapped_count' = mapped_count + 1
           ELSE UNCHANGED <<bs_items_dict, mapped_count>>
    /\ row_idx' = row_idx + 1
    /\ UNCHANGED <<bs_structure, account_mapping, pc, call, df, current_year_df,
                   item_name_col, value_col, result>>
    /\ UNCHANGED MainVars

\* lines 364-368: the loop is over; the table is built from the template,
\* standardized and returned
BuildAndConvert ==
    /\ pc = "mapping"
    /\ row_idx = Len(current_year_df)
    /\ result' = _convert_to_csv_format(
                     _build_balance_sheet_structure_with_grouping(bs_items_dict))
    /\ pc' = "done"
    /\ UNCHANGED <<bs_structure, account_mapping, call, df, current_year_df,
                   item_name_col, value_col, row_idx, bs_items_dict, mapped_count>>
    /\ UNCHANGED MainVars

\* ------------------------------------------------------------ main
(***************************************************************************)
(* A run of main.py. A file is "missing" or present; a present config is   *)
(* "ok" or "invalid" (not JSON), a present input "ok" or "unreadable". The *)
(* file at the output path is "absent", "old" (it was there before the     *)
(* run), "written" (the run created it), "overwritten" or "damaged" (the   *)
(* run wrote over an old file, wholly or in part) or "partial" (a write to *)
(* a new file failed midway).                                              *)
(***************************************************************************)
Formats == {"standard", "bs"}
ConfigStates == {"missing", "invalid", "ok"}
InputStates == {"missing", "unreadable", "ok"}
OutputStates == {"absent", "old"}

\* Path(output_path).exists()
OutputExists(output) == output # "absent"

\* validate_file_paths without its third check
ValidateWithoutOutputCheck(input, config, output) ==
    IF input = "missing" THEN "FileNotFoundError"
    ELSE IF config = "missing" THEN "FileNotFoundError"
    ELSE ""

\* validate_file_paths: the exception it raises, "" when it returns
validate_file_paths(input, config, output) ==
    IF input = "missing" THEN "FileNotFoundError"
    ELSE IF config = "missing" THEN "FileNotFoundError"
    ELSE IF OutputExists(output) THEN "FileExistsError"
    ELSE ""

\* the except clause of main that catches an exception (lines 205-223)
HandlerOf(exception) ==
    IF exception \in {"FileNotFoundError", "FileExistsError", "ValueError"}
    THEN exception ELSE "Exception"

\* the run ends in an except clause: sys.exit(1)
Raise(exception) ==
    /\ main_pc' = "exited"
    /\ handler' = HandlerOf(exception)
    /\ exit_code' = <<1>>

\* main returns: the process exits with code 0
Return ==
    /\ main_pc' = "exited"
    /\ handler' = ""
    /\ exit_code' = <<0>>

MainFrame == UNCHANGED <<bs_structure, account_mapping, call>> /\ UNCHANGED TransformVars

\* lines 129-150: the command line is parsed and the output path is decided
MainStart ==
    \E format \in Formats, dry_run \in BOOLEAN, input \in InputStates,
       config \in ConfigStates, output \in OutputStates :
        /\ pc = "idle"
        /\ pc' = "main"
        /\ main_pc' = "validate"
        /\ args' = [dry_run |-> dry_run, format |-> format]
        /\ files' = [input |-> input, config |-> config, output |-> output]
        /\ UNCHANGED <<handler, exit_code>>
        /\ MainFrame

\* lines 152-157: the paths are validated unless the run is a dry run
MainValidate ==
    /\ main_pc = "validate"
    /\ LET raised == IF args.dry_run THEN ""
                     ELSE validate_file_paths(files.input, files.config, files.output)
       IN  IF raised # "" THEN Raise(raised)
           ELSE main_pc' = "config" /\ UNCHANGED <<handler, exit_code>>
    /\ UNCHANGED <<pc, args, files>>
    /\ MainFrame

\* lines 161-162 and 185: CSVProcessor(args.config) reads the configuration
MainLoadConfig ==
    /\ main_pc = "config"
    /\ IF files.config = "missing" THEN Raise("FileNotFoundError")
       ELSE IF files.config = "invalid" THEN Raise("ValueError")
       ELSE main_pc' = "load" /\ UNCHANGED <<handler, exit_code>>
    /\ UNCHANGED <<pc, args, files>>
    /\ MainFrame

\* lines 169, 174, 193 and processor.py 222: load_csv; a dry run ends here
MainLoadCsv ==
    /\ main_pc = "load"
    /\ IF files.input = "missing" THEN Raise("FileNotFoundError")
       ELSE IF files.input = "unreadable" THEN Raise("ValueError")
       ELSE IF args.dry_run THEN Return
       ELSE main_pc' = "transform" /\ UNCHANGED <<handler, exit_code>>
    /\ UNCHANGED <<pc, args, files>>
    /\ MainFrame

\* line 175 and processor.py 225: the data is transformed, or that raises
MainTransform ==
    /\ main_pc = "transform"
    /\ \E raises \in BOOLEAN :
          IF raises THEN Raise("AttributeError")
          ELSE main_pc' = "save" /\ UNCHANGED <<handler, exit_code>>
    /\ UNCHANGED <<pc, args, files>>
    /\ MainFrame

\* what open(output_path, 'w') and the write leave at the output path
Written(output, complete) ==
    IF OutputExists(output)
    THEN IF complete THEN "overwritten" ELSE "damaged"
    ELSE IF complete THEN "written" ELSE "partial"

\* line 178 (bs): result_df.to_csv(output_path); processor.py 188-206
\* (standard): save_csv checks the path again, then writes
MainSave ==
    /\ main_pc = "save"
    /\ \E complete \in BOOLEAN :
          IF args.format = "standard" /\ OutputExists(files.output)
          THEN Raise("FileExistsError") /\ UNCHANGED files
          ELSE /\ files' = [files EXCEPT !.output = Written(files.output, complete)]
               /\ IF complete THEN Return
                  ELSE IF args.format = "standard" THEN Raise("ValueError")
                  ELSE Raise("OSError")
    /\ UNCHANGED <<pc, args>>
    /\ MainFrame

Next ==
    \/ CallCleanAmountValue
    \/ CallFormatAmount
    \/ CallExtractNoteNumbers
    \/ CallMapItem
    \/ CallConvertToCsv
    \/ TransformBegin
    \/ MapRow
    \/ BuildAndConvert
    \/ MainStart
    \/ MainValidate
    \/ MainLoadConfig
    \/ MainLoadCsv
    \/ MainTransform
    \/ MainSave

Spec == Init /\ [][Next]_vars

\* ------------------------------------------------------------ what the claims speak of
\* transform_to_balance_sheet has returned and both columns had been found
Transformed == pc = "done" /\ item_name_col # <<>> /\ value_col # <<>>

\* the label and the raw amount of row i of the filtered frame, as the loop reads them
LabelOfRow(i) ==
    LET cell == current_year_df[i][item_name_col[1]]
    IN  IF IsNa(cell) THEN <<>> ELSE cell
AmountOfRow(i) ==
    LET cell == current_year_df[i][value_col[1]]
    IN  IF IsNa(cell) THEN <<>> ELSE cell

\* row i is classified to this account
ClassifiedTo(i, account) ==
    LET bs_item == map_item_to_bs_account(LabelOfRow(i), AmountOfRow(i))
    IN  bs_item # <<>> /\ bs_item[1].name = account

\* a token denotes a number: an optional minus, then digits and separators
\* with at least one digit
TokenBody(token) == IF StartsWith(token, Minus) THEN Tail(token) ELSE token
IsNumericToken(token) ==
    /\ \A k \in 1..Len(TokenBody(token)) : IsNumChar(TokenBody(token)[k])
    /\ \E k \in 1..Len(TokenBody(token)) : IsDigit(TokenBody(token)[k])
TokenMagnitude(token) == DigitsValue(Remove(TokenBody(token), Comma))
TokenNumber(token) ==
    IF StartsWith(token, Minus) THEN 0 - TokenMagnitude(token)
    ELSE TokenMagnitude(token)

\* row i adds a normalized numeric value to this account
Contributes(i, account) ==
    ClassifiedTo(i, account) /\ IsNumericToken(clean_amount_value(AmountOfRow(i)))

\* the sum of the normalized numeric values of the first n rows classified
\* to this account
RECURSIVE NormalizedSum(_, _)
NormalizedSum(n, account) ==
    IF n = 0 THEN 0
    ELSE NormalizedSum(n - 1, account)
             + (IF Contributes(n, account)
                THEN TokenNumber(clean_amount_value(AmountOfRow(n))) ELSE 0)

HasContribution(account) ==
    \E i \in 1..Len(current_year_df) : Contributes(i, account)

\* the label of an output row, whichever of the three label cells holds it
LabelOf(row) ==
    IF Cell(row, 0) # "" THEN Cell(row, 0)
    ELSE IF Cell(row, 1) # "" THEN Cell(row, 1)
    ELSE Cell(row, 2)

\* an amount as a quoted cell
QuotedCell(text) == Quote \o Join(text) \o Quote

AccountsOfMapping == {account_mapping[i].account : i \in 1..Len(account_mapping)}

\* C1: the amount cell of an account's row is the grouped sum of the normalized
\* numeric values of the raw rows classified to that account.
C1_ConsolidatedIsNormalizedSum ==
    Transformed =>
        \A account \in AccountsOfMapping, i \in 1..Len(result) :
            (HasContribution(account) /\ LabelOf(result[i]) = account)
                => Cell(result[i], AmountCell)
                       = QuotedCell(FormatComma(
                             NormalizedSum(Len(current_year_df), account)))

\* C2: a negative consolidated total is shown with the alternate negative glyph
\* followed by the grouped magnitude, never with a leading minus sign.
C2_NegativeTotalUsesSankaku ==
    Transformed =>
        \A account \in DOMAIN bs_items_dict, i \in 1..Len(result) :
            (/\ HasValidAmount(bs_items_dict[account])
             /\ TotalAmount(bs_items_dict[account]) < 0
             /\ LabelOf(result[i]) = account)
                => Cell(result[i], AmountCell)
                       = QuotedCell(<<Sankaku>>
                             \o Grouped(0 - TotalAmount(bs_items_dict[account])))

\* C3: clean_amount_value returns the empty string for every raw amount
\* that holds no digit.
C3_NoDigitGivesEmpty ==
    (call.fn = "clean_amount_value"
        /\ \A k \in 1..Len(call.args[1]) : ~IsDigit(call.args[1][k]))
        => call.ret = <<>>

\* ------------------------------------------------------------ the shape of the template
\* the rows a template node stands for, counted from the template alone
SubcategoryCount(subcat) ==
    IF subcat.kind = "list" THEN 1 + Len(subcat.children) ELSE 1

RECURSIVE SubcategoryCountSum(_)
SubcategoryCountSum(subcategories) ==
    IF subcategories = <<>> THEN 0
    ELSE SubcategoryCount(Head(subcategories)) + SubcategoryCountSum(Tail(subcategories))

CategoryCount(category) ==
    IF category.kind = "dict" THEN 1 + SubcategoryCountSum(category.children)
    ELSE IF category.kind = "list" THEN 1 + Len(category.children)
    ELSE 1

RECURSIVE CategoryCountSum(_)
CategoryCountSum(structure) ==
    IF structure = <<>> THEN 0
    ELSE CategoryCount(Head(structure)) + CategoryCountSum(Tail(structure))

SectionNames == <<"ShisanNoBu", "FusaiNoBu">>
SectionCount(section_name) == 1 + CategoryCountSum(SectionOf(section_name))
TemplateRowCount == SectionCount("ShisanNoBu") + 1 + SectionCount("FusaiNoBu")

\* the row of the table that holds the header of a section
SectionStart(section_name) ==
    IF section_name = "ShisanNoBu" THEN 1 ELSE SectionCount("ShisanNoBu") + 2

\* the row of the table that holds the first row of category k of a section
CategoryStart(section_name, k) ==
    SectionStart(section_name) + 1
        + CategoryCountSum(SubSeq(SectionOf(section_name), 1, k - 1))

\* every cell of the row but the label cell and the amount cell is empty
OnlyLabelAt(row, k, name) ==
    /\ Len(row) = NumColumns
    /\ Cell(row, k) = name
    /\ \A c \in 0..(NumColumns - 1) : (c # k /\ c # AmountCell) => Cell(row, c) = ""

\* the categories of the template of a given kind, as <<section, k>>
CategoriesOfKind(kind) ==
    {sk \in {<<SectionNames[j], k>> :
                j \in 1..2, k \in 1..(Len(SectionOf("ShisanNoBu")) + Len(SectionOf("FusaiNoBu")))} :
        /\ sk[2] <= Len(SectionOf(sk[1]))
        /\ SectionOf(sk[1])[sk[2]].kind = kind}

\* C4 as stated: the row of a category whose value is the null marker has its
\* label in cell 1 and cell 0 empty.
C4_NullCategoryLabelInCell1 ==
    Transformed =>
        \A sk \in CategoriesOfKind("none") :
            LET row == result[CategoryStart(sk[1], sk[2])]
            IN  Cell(row, 1) = SectionOf(sk[1])[sk[2]].name /\ Cell(row, 0) = ""

\* C4 amended: a category whose value is the null marker yields exactly one row,
\* with its label in cell 0 and every other cell but the amount cell empty.
C4_NullCategoryLabelInCell0 ==
    Transformed =>
        /\ Len(result) = TemplateRowCount
        /\ \A sk \in CategoriesOfKind("none") :
              OnlyLabelAt(result[CategoryStart(sk[1], sk[2])], 0,
                          SectionOf(sk[1])[sk[2]].name)

C4_Witness ==
    /\ Transformed
    /\ \E sk \in CategoriesOfKind("none") :
          /\ SectionOf(sk[1])[sk[2]].name = "ShisanGokei"
          /\ Cell(result[CategoryStart(sk[1], sk[2])], 0) = "ShisanGokei"

\* C5 as stated: a category with a direct list of leaves yields a header row
\* with the category label in cell 1, then one row per leaf in list order with
\* the leaf label in cell 1 too.
C5_DirectLeavesInCell1 ==
    Transformed =>
        \A sk \in CategoriesOfKind("list") :
            LET category == SectionOf(sk[1])[sk[2]]
                start == CategoryStart(sk[1], sk[2])
            IN  /\ Cell(result[start], 1) = category.name
                /\ \A j \in 1..Len(category.children) :
                      Cell(result[start + j], 1) = category.children[j]

\* C5 amended: a category with a direct list of leaves yields a header row with
\* the category label in cell 1, then one row per leaf in list order with the
\* leaf label in cell 2.
C5_DirectLeavesInCell2 ==
    Transformed =>
        /\ Len(result) = TemplateRowCount
        /\ \A sk \in CategoriesOfKind("list") :
              LET category == SectionOf(sk[1])[sk[2]]
                  start == CategoryStart(sk[1], sk[2])
              IN  /\ OnlyLabelAt(result[start], 1, category.name)
                  /\ Cell(result[start], AmountCell) = ""
                  /\ \A j \in 1..Len(category.children) :
                        OnlyLabelAt(result[start + j], 2, category.children[j])

C5_Witness ==
    /\ Transformed
    /\ \E sk \in CategoriesOfKind("list") :
          LET category == SectionOf(sk[1])[sk[2]]
              start == CategoryStart(sk[1], sk[2])
          IN  /\ category.name = "RyudoShisan"
              /\ Len(category.children) >= 2
              /\ Cell(result[start + 2], 2) = category.children[2]
              /\ Cell(result[start + 2], AmountCell) # ""

\* C6: every row of the returned table has exactly NumColumns cells, and
\* _convert_to_csv_format keeps the first NumColumns cells of a row, padding a
\* shorter row with empty strings.
C6_EveryRowHasNumColumns ==
    /\ pc = "done" => \A i \in 1..Len(result) : Len(result[i]) = NumColumns
    /\ call.fn = "_convert_to_csv_format" =>
          LET table == call.args[1]
          IN  /\ Len(call.ret) = Len(table)
              /\ \A i \in 1..Len(table) :
                    /\ Len(call.ret[i]) = NumColumns
                    /\ \A k \in 1..NumColumns :
                          call.ret[i][k] = IF k <= Len(table[i]) THEN table[i][k] ELSE ""

C6_Witness ==
    /\ call.fn = "_convert_to_csv_format"
    /\ \E i, j \in 1..Len(call.args[1]) :
          /\ Len(call.args[1][i]) > NumColumns
          /\ Len(call.args[1][j]) < NumColumns
          /\ Len(call.ret[i]) = NumColumns
          /\ Len(call.ret[j]) = NumColumns

\* the names of the leaf and total rows of the template
SubcategoryLeafNames(subcat) ==
    IF subcat.kind = "list" THEN {subcat.children[j] : j \in 1..Len(subcat.children)}
    ELSE {subcat.name}
CategoryLeafNames(category) ==
    IF category.kind = "dict"
    THEN UNION {SubcategoryLeafNames(category.children[j]) :
                   j \in 1..Len(category.children)}
    ELSE IF category.kind = "list"
    THEN {category.children[j] : j \in 1..Len(category.children)}
    ELSE {category.name}
SectionLeafNames(section_name) ==
    UNION {CategoryLeafNames(SectionOf(section_name)[k]) :
              k \in 1..Len(SectionOf(section_name))}
TemplateLeafNames == SectionLeafNames("ShisanNoBu") \cup SectionLeafNames("FusaiNoBu")

\* the table of an input without rows: the two section headers, the blank
\* separator between them, a row for every leaf and total of the template, no
\* amount anywhere, and as many rows as the template shape says
BlankTemplateTable ==
    /\ Len(result) = TemplateRowCount
    /\ result[SectionStart("ShisanNoBu")] = RowWith(0, "ShisanNoBu")
    /\ result[SectionStart("FusaiNoBu") - 1] = BlankRow
    /\ result[SectionStart("FusaiNoBu")] = RowWith(0, "FusaiNoBu")
    /\ \A i \in 1..Len(result) : Cell(result[i], AmountCell) = ""
    /\ \A name \in TemplateLeafNames :
          \E i \in 1..Len(result) : LabelOf(result[i]) = name

\* C7 as stated: for an input without rows the returned table is the blank
\* template table.
C7_EmptyInputGivesBlankTemplate ==
    (pc = "done" /\ df.rows = <<>>) => BlankTemplateTable

\* C7 amended: for an input without rows whose label and value columns are
\* found, the returned table is the blank template table.
C7_EmptyInputWithColumnsGivesBlankTemplate ==
    (Transformed /\ df.rows = <<>>) => BlankTemplateTable

C7_Witness ==
    /\ Transformed
    /\ df.rows = <<>>
    /\ Len(result) = TemplateRowCount
    /\ TemplateRowCount > 3

\* C8: when the label column or the value column is not found, the call returns
\* an empty report at once: no row is classified and nothing is aggregated.
C8_MissingColumnGivesEmptyReport ==
    (pc \in {"mapping", "done"} /\ (item_name_col = <<>> \/ value_col = <<>>))
        => /\ pc = "done"
           /\ result = <<>>
           /\ row_idx = 0
           /\ mapped_count = 0
           /\ DOMAIN bs_items_dict = {}

C8_Witness ==
    /\ pc = "done"
    /\ item_name_col # <<>>
    /\ value_col = <<>>
    /\ Len(df.rows) > 0
    /\ result = <<>>

\* a text is an integer written with grouping: digits, a separator before every
\* group of three digits counted from the right, no leading zero
IsGroupedInteger(text) ==
    /\ text # <<>>
    /\ Len(text) % 4 # 0
    /\ \A i \in 1..Len(text) :
          IF (Len(text) - i + 1) % 4 = 0 THEN text[i] = Comma ELSE IsDigit(text[i])
    /\ text[1] # "0" \/ Len(text) = 1

\* C9: format_amount returns the empty string for the empty token; for a
\* numeric token it returns the magnitude, divided by UnitScale when it is at
\* least UnitScale and a multiple of it and unchanged otherwise, written with
\* grouping and with a leading minus exactly when the token has one.
C9_FormatAmountRescalesAndGroups ==
    call.fn = "format_amount" =>
        LET amount == call.args[1]
            shown == IF TokenMagnitude(amount) >= UnitScale
                          /\ TokenMagnitude(amount) % UnitScale = 0
                     THEN TokenMagnitude(amount) \div UnitScale
                     ELSE TokenMagnitude(amount)
        IN  /\ amount = <<>> => call.ret = <<>>
            /\ IsNumericToken(amount) =>
                  /\ StartsWith(call.ret, Minus) <=> StartsWith(amount, Minus)
                  /\ IsGroupedInteger(TokenBody(call.ret))
                  /\ DigitsValue(Remove(TokenBody(call.ret), Comma)) = shown

C9_Witness ==
    /\ call.fn = "format_amount"
    /\ call.args[1] = <<Minus>> \o Amount2000000
    /\ call.ret = <<Minus, "2">>

\* a table entry has a string pattern that occurs in the text
HasPatternIn(entry, text) ==
    /\ entry.kind \in {"list", "str"}
    /\ \E k \in 1..Len(entry.patterns) :
          entry.patterns[k] # NotAString /\ Contains(text, entry.patterns[k])

IsBlankLabel(label) == IsNa(label) \/ \A k \in 1..Len(label) : label[k] = Space

\* the table entries with a pattern in the text, and the call's result being
\* the account of the first of them, or nothing when there is none
EntriesMatching(text) ==
    {i \in 1..Len(account_mapping) : HasPatternIn(account_mapping[i], text)}

ReturnsFirstOf(matching) ==
    IF matching = {} THEN call.ret = <<>>
    ELSE /\ call.ret # <<>>
         /\ \E i \in matching :
               /\ \A j \in matching : i <= j
               /\ call.ret[1].name = account_mapping[i].account

CellText(cell) == IF IsNa(cell) THEN <<>> ELSE cell

\* bs_items_dict after the loop of lines 348-359 ran over these rows
RECURSIVE ItemsDictOf(_, _, _)
ItemsDictOf(rows, item_col, val_col) ==
    IF rows = <<>> THEN EmptyDict
    ELSE LET before == ItemsDictOf(SubSeq(rows, 1, Len(rows) - 1), item_col, val_col)
             row == rows[Len(rows)]
             bs_item == map_item_to_bs_account(CellText(row[item_col]),
                                               CellText(row[val_col]))
         IN  IF bs_item = <<>> THEN before ELSE DictAppend(before, bs_item[1])

\* the table built from these rows of the filtered frame
TableOfRows(rows, item_col, val_col) ==
    _convert_to_csv_format(
        _build_balance_sheet_structure_with_grouping(
            ItemsDictOf(rows, item_col, val_col)))

\* what transform_to_balance_sheet returns for a frame
TransformOutput(frame) ==
    LET filtered == FilterCurrentYear(frame)
        current == [frame EXCEPT !.rows = filtered]
        item_col == _detect_item_name_column(current)
        val_col == _detect_value_column(current)
    IN  IF item_col = <<>> \/ val_col = <<>> THEN <<>>
        ELSE TableOfRows(filtered, item_col[1], val_col[1])

\* a sequence without its element i
WithoutRow(rows, i) == SubSeq(rows, 1, i - 1) \o SubSeq(rows, i + 1, Len(rows))

\* the label matches no pattern of the pattern table
IsUnmatchedLabel(label) ==
    IsBlankLabel(label) \/ EntriesMatching(Strip(label)) = {}

\* C11 as stated: the table returned for an input is the table returned for
\* the same input without a row whose label matches no pattern.
C11_UnmatchedRowOfInputChangesNothing ==
    (pc = "done" /\ item_name_col # <<>>) =>
        \A i \in 1..Len(df.rows) :
            IsUnmatchedLabel(df.rows[i][item_name_col[1]])
                => result = TransformOutput([df EXCEPT !.rows = WithoutRow(df.rows, i)])

\* C11 amended: a row that passed the period filter and whose label matches
\* no pattern adds nothing: the returned table is the table built from the
\* other rows that passed the filter, with the same label and value columns.
C11_UnmatchedRowIsDropped ==
    Transformed =>
        \A i \in 1..Len(current_year_df) :
            IsUnmatchedLabel(current_year_df[i][item_name_col[1]])
                => result = TableOfRows(WithoutRow(current_year_df, i),
                                        item_name_col[1], value_col[1])

\* an unmatched row with a numeric amount stands before a row that is shown
C11_Witness ==
    /\ Transformed
    /\ Len(current_year_df) = 2
    /\ IsUnmatchedLabel(current_year_df[1][item_name_col[1]])
    /\ IsNumericToken(clean_amount_value(AmountOfRow(1)))
    /\ ~IsUnmatchedLabel(current_year_df[2][item_name_col[1]])
    /\ \E k \in 1..Len(result) : Cell(result[k], AmountCell) # ""

\* the orders n rows can be put in
RowOrders(n) ==
    {p \in [1..n -> 1..n] : \A i, j \in 1..n : i # j => p[i] # p[j]}

RoundTrips(token, formatted) ==
    IsNumericToken(token) =>
        /\ FloatParses(Remove(formatted, Comma))
        /\ FloatValue(Remove(formatted, Comma)) =
              (IF TokenMagnitude(token) >= UnitScale
                    /\ TokenMagnitude(token) % UnitScale = 0
               THEN IF StartsWith(token, Minus)
                    THEN 0 - (TokenMagnitude(token) \div UnitScale)
                    ELSE TokenMagnitude(token) \div UnitScale
               ELSE TokenNumber(token))

\* C13: the token clean_amount_value returns, when it denotes a number, is
\* formatted by format_amount to a text that parses back, separators stripped,
\* to the number of the token, or to that number divided by UnitScale exactly
\* when the rescale applies; so it is for the value the classifier stores.
C13_FormatRoundTrips ==
    /\ call.fn = "clean_amount_value"
          => RoundTrips(call.ret, format_amount(call.ret))
    /\ (call.fn = "map_item_to_bs_account" /\ call.ret # <<>>)
          => RoundTrips(clean_amount_value(call.args[2]), call.ret[1].value)

C13_Witness ==
    /\ call.fn = "map_item_to_bs_account"
    /\ call.args[2] = Amount2000000
    /\ call.ret # <<>>
    /\ clean_amount_value(call.args[2]) = Amount2000000
    /\ call.ret[1].value = <<"2">>

\* the sum of the amounts stored for the first n rows, over the rows that
\* are classified to this account with a numeric amount
RECURSIVE StoredSum(_, _)
StoredSum(n, account) ==
    IF n = 0 THEN 0
    ELSE StoredSum(n - 1, account)
             + (IF Contributes(n, account)
                THEN TokenNumber(format_amount(clean_amount_value(AmountOfRow(n))))
                ELSE 0)

\* the row is the row of a leaf or total: its label, in one of the three
\* label cells, is the name of a leaf or total of the template
IsLeafOrTotalRow(row) == LabelOf(row) \in TemplateLeafNames

\* C14: every leaf and total of the template has its row; the amount cell of
\* such a row holds the quoted consolidated amount of the account of that
\* name when a row classified to it had a numeric amount, members without one
\* being skipped, and is empty otherwise; its other cells, the label cell
\* apart, are empty.
C14_AmountCellIffNumericEntry ==
    Transformed =>
        /\ \A name \in TemplateLeafNames :
              \E k \in 1..Len(result) : LabelOf(result[k]) = name
        /\ \A k \in 1..Len(result) :
              IsLeafOrTotalRow(result[k]) =>
                  LET account == LabelOf(result[k])
                  IN  /\ Cell(result[k], AmountCell) =
                            (IF HasContribution(account)
                             THEN QuotedCell(FormatComma(
                                      StoredSum(Len(current_year_df), account)))
                             ELSE "")
                      /\ \E c \in 0..2 :
                            /\ Cell(result[k], c) = account
                            /\ \A other \in (0..(NumColumns - 1)) \ {c, AmountCell} :
                                  Cell(result[k], other) = ""

\* a group with a numeric member and a member without a number is shown, and
\* a leaf without any entry has its row
C14_Witness ==
    /\ Transformed
    /\ \E account \in DOMAIN bs_items_dict :
          /\ \E i, j \in 1..Len(bs_items_dict[account]) :
                ItemParses(bs_items_dict[account][i])
                    /\ ~ItemParses(bs_items_dict[account][j])
          /\ \E k \in 1..Len(result) :
                /\ LabelOf(result[k]) = account
                /\ Cell(result[k], AmountCell) # ""
    /\ \E k \in 1..Len(result) :
          IsLeafOrTotalRow(result[k]) /\ Cell(result[k], AmountCell) = ""

\* ------------------------------------------------------------ the order of the rows
\* a row the template asks for: its label, and the cell the label is said to
\* stand in (AnyCell where nothing is said)
AnyCell == 0 - 1
Expect(name, cell) == [name |-> name, cell |-> cell]
ExpectAll(names, cell) == [i \in 1..Len(names) |-> Expect(names[i], cell)]

\* the rows of a sub-category: its header and then its leaves, or itself alone
ExpectedOfSubcategory(subcat) ==
    IF subcat.kind = "list"
    THEN <<Expect(subcat.name, 2)>> \o ExpectAll(subcat.children, 2)
    ELSE <<Expect(subcat.name, AnyCell)>>

RECURSIVE ExpectedOfSubcategories(_)
ExpectedOfSubcategories(subcategories) ==
    IF subcategories = <<>> THEN <<>>
    ELSE ExpectedOfSubcategory(Head(subcategories))
             \o ExpectedOfSubcategories(Tail(subcategories))

\* the rows of a category: a nested one is its header and then its
\* sub-categories, a list its header and then its leaves, a bare one itself
ExpectedOfCategory(category) ==
    IF category.kind = "dict"
    THEN <<Expect(category.name, 1)>> \o ExpectedOfSubcategories(category.children)
    ELSE IF category.kind = "list"
    THEN <<Expect(category.name, AnyCell)>> \o ExpectAll(category.children, AnyCell)
    ELSE <<Expect(category.name, AnyCell)>>

RECURSIVE ExpectedOfCategories(_)
ExpectedOfCategories(structure) ==
    IF structure = <<>> THEN <<>>
    ELSE ExpectedOfCategory(Head(structure)) \o ExpectedOfCategories(Tail(structure))

ExpectedOfSection(section_name) ==
    <<Expect(section_name, 0)>> \o ExpectedOfCategories(SectionOf(section_name))

\* the whole table: the first section, the separator, the second section
ExpectedRows ==
    ExpectedOfSection("ShisanNoBu") \o <<Expect("", AnyCell)>>
        \o ExpectedOfSection("FusaiNoBu")

\* C15: the rows of the table are the nodes of the template in declaration
\* order, section by section: a section header in cell 0, a nested category
\* header in cell 1 before its sub-categories, a sub-category header in cell 2
\* right before its leaves in cell 2, and a single blank row, between the two
\* sections.
C15_RowsFollowTemplateOrder ==
    Transformed =>
        /\ Len(result) = Len(ExpectedRows)
        /\ \A k \in 1..Len(result) :
              /\ LabelOf(result[k]) = ExpectedRows[k].name
              /\ ExpectedRows[k].cell # AnyCell
                    => Cell(result[k], ExpectedRows[k].cell) = ExpectedRows[k].name
              /\ result[k] = BlankRow <=> k = Len(ExpectedOfSection("ShisanNoBu")) + 1

\* the default template laid out for an input that fills an amount in
C15_Witness ==
    /\ Transformed
    /\ Len(current_year_df) > 0
    /\ \E k \in 1..Len(result) : Cell(result[k], AmountCell) # ""
    /\ \E k \in 1..Len(SectionOf("ShisanNoBu")) :
          /\ SectionOf("ShisanNoBu")[k].kind = "dict"
          /\ Len(SectionOf("ShisanNoBu")[k].children) > 1
    /\ Len(SectionOf("FusaiNoBu")) > 0
    /\ Cell(result[1], 0) = "ShisanNoBu"
    /\ result[Len(ExpectedOfSection("ShisanNoBu")) + 1] = BlankRow
    /\ Cell(result[Len(ExpectedOfSection("ShisanNoBu")) + 2], 0) = "FusaiNoBu"

\* ------------------------------------------------------------ annotated amounts
\* an annotation: the note mark and its number
IsAnnotation(text) ==
    /\ Len(text) >= 2
    /\ text[1] = Kome
    /\ \A k \in 2..Len(text) : IsDigit(text[k])

\* a monetary amount: digits and separators, a digit first
IsAmountText(text) ==
    /\ text # <<>>
    /\ IsDigit(text[1])
    /\ \A k \in 1..Len(text) : IsNumChar(text[k])

\* C16: for a raw value made of an annotation and a monetary amount, the
\* annotation before the amount (a blank between them) or after it,
\* clean_amount_value returns the amount and never the annotation's number.
C16_AnnotationIsRemoved ==
    call.fn = "clean_amount_value" =>
        \A i \in 1..(Len(call.args[1]) - 1) :
            LET before == SubSeq(call.args[1], 1, i)
                after == SubSeq(call.args[1], i + 1, Len(call.args[1]))
            IN  /\ (IsAmountText(before) /\ IsAnnotation(after))
                      => call.ret = before
                /\ (IsAnnotation(before) /\ after[1] = Space
                        /\ IsAmountText(Tail(after)))
                      => call.ret = Tail(after)

\* ------------------------------------------------------------ the output file
\* a file was at the output path before the run
ExistedBefore == files.output \in {"old", "overwritten", "damaged"}

\* the run is over
Exited == pc = "main" /\ main_pc = "exited"

\* C17 as stated: a file that was at the output path before the run is never
\* written; a run that is not a dry run ends in the FileExistsError clause
\* with exit code 1; a dry run writes no output file.
C17_ExistingOutputEndsInFileExistsError ==
    pc = "main" =>
        /\ ExistedBefore => files.output = "old"
        /\ (ExistedBefore /\ Exited /\ ~args.dry_run)
              => (handler = "FileExistsError" /\ exit_code = <<1>>)
        /\ args.dry_run => files.output \in {"absent", "old"}

\* C17 amended: the same, the run ending with exit code 1 in the
\* FileNotFoundError clause when the input or the configuration file is
\* missing and in the FileExistsError clause otherwise.
C17_ExistingOutputIsNeverWritten ==
    pc = "main" =>
        /\ ExistedBefore => files.output = "old"
        /\ (ExistedBefore /\ Exited /\ ~args.dry_run)
              => /\ exit_code = <<1>>
                 /\ handler = (IF files.input = "missing" \/ files.config = "missing"
                               THEN "FileNotFoundError" ELSE "FileExistsError")
        /\ args.dry_run => files.output \in {"absent", "old"}

\* a bs run that is not a dry run found a file at the output path and left it
C17_Witness ==
    /\ Exited
    /\ args.format = "bs"
    /\ ~args.dry_run
    /\ files = [input |-> "ok", config |-> "ok", output |-> "old"]
    /\ handler = "FileExistsError"
    /\ exit_code = <<1>>

\* ------------------------------------------------------------ a name at several positions
\* C18: rows of leaves or totals that bear the same name show the same amount
\* cell, wherever they stand in the template; an amount can so stand in more
\* than one row.
C18_SameNameSameAmount ==
    Transformed =>
        LET leaves == TemplateLeafNames
        IN  \A i \in 1..Len(result) :
                LabelOf(result[i]) \in leaves =>
                    \A j \in 1..Len(result) :
                        LabelOf(result[i]) = LabelOf(result[j])
                            => Cell(result[i], AmountCell) = Cell(result[j], AmountCell)

\* Sonota (その他) carries its amount in a row of each section
C18_Witness ==
    /\ Transformed
    /\ \E i, j \in 1..Len(result) :
          /\ i < Len(ExpectedOfSection("ShisanNoBu")) + 1
          /\ j > Len(ExpectedOfSection("ShisanNoBu")) + 1
          /\ LabelOf(result[i]) = "Sonota"
          /\ LabelOf(result[j]) = "Sonota"
          /\ Cell(result[i], AmountCell) # ""
          /\ Cell(result[j], AmountCell) = Cell(result[i], AmountCell)

\* ------------------------------------------------------------ the period of a row
\* the text holds the letters of Current, in whatever case
HoldsCurrentAnyCase(text) ==
    \E i \in 1..(Len(text) - Len(CurrentWord) + 1) :
        \A k \in 1..Len(CurrentWord) :
            ToLower(text[i + k - 1]) = ToLower(CurrentWord[k])

\* the rows of the frame that are eligible by the rule the claim states, when
\* the frame has a ContextID column, a SoutaiNendo column, or neither
EligibleRow(frame, row) ==
    IF "ContextID" \in ColumnSet(frame)
    THEN ~IsNa(row["ContextID"]) /\ HoldsCurrentAnyCase(row["ContextID"])
    ELSE IF "SoutaiNendo" \in ColumnSet(frame)
    THEN row["SoutaiNendo"] \in {Touki, ToukiMatsu}
    ELSE TRUE

HasPeriodRule(frame) ==
    \/ "ContextID" \in ColumnSet(frame)
    \/ "SoutaiNendo" \in ColumnSet(frame)
    \/ \A i \in 1..Len(frame.columns) : ~HasInstantOrQuarter(frame.columns[i])

\* C19: with a ContextID column only the rows whose context holds Current, in
\* any case, are classified and shown, a missing context never; without it
\* and with a SoutaiNendo column only the rows of 当期 and 当期末; the first
\* rule goes before the second; with neither column, and no Instant or
\* Quarter column, every row.
C19_PeriodFilter ==
    (pc \in {"mapping", "done"} /\ HasPeriodRule(df)) =>
        LET eligible == SelectSeq(df.rows, LAMBDA row : EligibleRow(df, row))
        IN  /\ current_year_df = eligible
            /\ Transformed
                  => result = TableOfRows(eligible, item_name_col[1], value_col[1])

\* a row of a prior period by SoutaiNendo and of the current one by ContextID
\* is shown, a row with a missing context is not
C19_Witness ==
    /\ Transformed
    /\ \E i \in 1..Len(df.rows) :
          /\ {"ContextID", "SoutaiNendo"} \subseteq ColumnSet(df)
          /\ df.rows[i]["SoutaiNendo"] \notin {Touki, ToukiMatsu}
          /\ current_year_df = <<df.rows[i]>>
          /\ Len(df.rows) = 2
    /\ \E k \in 1..Len(result) : Cell(result[k], AmountCell) # ""

=============================================================================
